---- MODULE Spec2Model ----
(***************************************************************************)
(* A model of code_line_counter.py: the per-line classifier of             *)
(* CodeLineCounter.count_lines_in_file and the directory walk and          *)
(* aggregation of CodeLineCounter.scan_directory, as driven by main.       *)
(*                                                                         *)
(* Text is modelled as sequences of one-character strings, so that strip,  *)
(* lower, substring search, startswith and Path.suffix are computed.       *)
(***************************************************************************)
EXTENDS Integers, Sequences, FiniteSets, Bags, TLC

\* ------------------------------------------------------------------ bounds
\* Number of pieces (blank, filler, comment markers) an enumerated line holds.
MaxLinePieces == 2
\* Number of lines of a file given to the per-line loop.
MaxLines == 3
\* Number of files present in the scanned tree.
MaxFiles == 2
\* Number of scan_directory calls made on one counter.
MaxScans == 2

\* Python's None, where the value is otherwise a string or a list: the code
\* tests these for truth, or receives them from argparse, which delivers no
\* empty list.
None == <<>>

\* None as the language get_language_by_extension returns.
NoLanguage == "None"

\* None as the result count_lines_in_file returns.
NoResult == [language |-> NoLanguage]

\* --------------------------------------------------------------- str methods
\* The characters str.strip removes (those that occur in the modelled text).
Whitespace == {" ", "\t", "\n", "\r"}

RECURSIVE LStrip(_)
LStrip(s) ==
  IF s # <<>> /\ Head(s) \in Whitespace THEN LStrip(Tail(s)) ELSE s

RECURSIVE RStrip(_)
RStrip(s) ==
  IF s # <<>> /\ s[Len(s)] \in Whitespace
  THEN RStrip(SubSeq(s, 1, Len(s) - 1))
  ELSE s

\* str.strip()
Strip(s) == RStrip(LStrip(s))

\* `sub in s` for strings
Contains(sub, s) ==
  \E i \in 1..(Len(s) - Len(sub) + 1) : SubSeq(s, i, i + Len(sub) - 1) = sub

\* s.startswith(prefix)
StartsWith(s, prefix) ==
  Len(prefix) <= Len(s) /\ SubSeq(s, 1, Len(prefix)) = prefix

UpperChars ==
  <<"A","B","C","D","E","F","G","H","I","J","K","L","M",
    "N","O","P","Q","R","S","T","U","V","W","X","Y","Z">>
LowerChars ==
  <<"a","b","c","d","e","f","g","h","i","j","k","l","m",
    "n","o","p","q","r","s","t","u","v","w","x","y","z">>

LowerChar(c) ==
  IF \E i \in DOMAIN UpperChars : UpperChars[i] = c
  THEN LowerChars[CHOOSE i \in DOMAIN UpperChars : UpperChars[i] = c]
  ELSE c

\* str.lower()
Lower(s) == [i \in DOMAIN s |-> LowerChar(s[i])]

\* Python truthiness of an optional string: None and '' are false.
Truthy(x) == x # None

\* pathlib's PurePath.suffix of a file name: the text from the last dot, when
\* that dot is neither the first nor the last character of the name.
Suffix(name) ==
  LET dots == {i \in DOMAIN name : name[i] = "."}
      last == CHOOSE i \in dots : \A j \in dots : j <= i
  IN  IF dots # {} /\ 1 < last /\ last < Len(name)
      THEN SubSeq(name, last, Len(name))
      ELSE <<>>

\* ------------------------------------------------------- language registry
\* The keys of language_configs in insertion order (dict iteration order).
LanguageOrder == <<"python", "java", "cpp", "go", "javascript", "html", "css">>

Languages == {LanguageOrder[i] : i \in DOMAIN LanguageOrder}

CStyle(exts) ==
  [extensions |-> exts, line_comment |-> <<"/","/">>,
   block_comment_start |-> <<"/","*">>, block_comment_end |-> <<"*","/">>]

language_configs ==
  [lang \in Languages |->
    CASE lang = "python" ->
           [extensions |-> << <<".","p","y">> >>, line_comment |-> <<"#">>,
            block_comment_start |-> None, block_comment_end |-> None]
      [] lang = "java" -> CStyle(<< <<".","j","a","v","a">> >>)
      [] lang = "cpp" ->
           CStyle(<< <<".","c","p","p">>, <<".","c","c">>, <<".","c","x","x">>,
                     <<".","c">>, <<".","h">>, <<".","h","p","p">>,
                     <<".","h","h">>, <<".","h","x","x">> >>)
      [] lang = "go" -> CStyle(<< <<".","g","o">> >>)
      [] lang = "javascript" ->
           CStyle(<< <<".","j","s">>, <<".","j","s","x">>,
                     <<".","t","s">>, <<".","t","s","x">> >>)
      [] lang = "html" ->
           [extensions |-> << <<".","h","t","m","l">>, <<".","h","t","m">> >>,
            line_comment |-> None,
            block_comment_start |-> <<"<","!","-","-">>,
            block_comment_end |-> <<"-","-",">">>]
      [] lang = "css" ->
           [extensions |-> << <<".","c","s","s">> >>, line_comment |-> None,
            block_comment_start |-> <<"/","*">>,
            block_comment_end |-> <<"*","/">>]]

\* `x in list`
InList(x, list) == \E i \in DOMAIN list : list[i] = x

RECURSIVE FirstLanguageFrom(_, _)
FirstLanguageFrom(i, extension) ==
  IF i > Len(LanguageOrder) THEN NoLanguage
  ELSE IF InList(Lower(extension), language_configs[LanguageOrder[i]].extensions)
       THEN LanguageOrder[i]
       ELSE FirstLanguageFrom(i + 1, extension)

get_language_by_extension(extension) == FirstLanguageFrom(1, extension)

\* ---------------------------------------------------------- line classifier
is_blank_line(line) == Strip(line) = <<>>

\* What one iteration of the per-line loop adds to the three counters, and the
\* block-comment flag it leaves.
Step(b, c, k, flag) == [blank |-> b, comment |-> c, code |-> k, in_block |-> flag]

\* The loop body without its `if in_block_comment` test: a line inside an open
\* block comment that holds no marker falls through.
ClassifyNonBlank_NoInside(config, stripped_line, in_block_comment) ==
  LET start == config.block_comment_start
      end == config.block_comment_end
      line_comment == config.line_comment
      has_block == Truthy(start) /\ Truthy(end)
  IN  IF has_block /\ Contains(start, stripped_line) /\ Contains(end, stripped_line)
        THEN Step(0, 1, 0, in_block_comment)
      ELSE IF has_block /\ Contains(start, stripped_line) /\ ~in_block_comment
        THEN Step(0, 1, 0, TRUE)
      ELSE IF has_block /\ Contains(end, stripped_line) /\ in_block_comment
        THEN Step(0, 1, 0, FALSE)
      ELSE IF Truthy(line_comment) /\ StartsWith(stripped_line, line_comment)
        THEN Step(0, 1, 0, in_block_comment)
      ELSE Step(0, 0, 1, in_block_comment)

\* The loop body for a line that is not blank: the block-comment tests, the
\* line-comment test, and the fall through to code.
ClassifyNonBlank(config, stripped_line, in_block_comment) ==
  LET start == config.block_comment_start
      end == config.block_comment_end
      line_comment == config.line_comment
      has_block == Truthy(start) /\ Truthy(end)
  IN  IF has_block /\ Contains(start, stripped_line) /\ Contains(end, stripped_line)
        THEN Step(0, 1, 0, in_block_comment)
      ELSE IF has_block /\ Contains(start, stripped_line) /\ ~in_block_comment
        THEN Step(0, 1, 0, TRUE)
      ELSE IF has_block /\ Contains(end, stripped_line) /\ in_block_comment
        THEN Step(0, 1, 0, FALSE)
      ELSE IF has_block /\ in_block_comment
        THEN Step(0, 1, 0, in_block_comment)
      ELSE IF Truthy(line_comment) /\ StartsWith(stripped_line, line_comment)
        THEN Step(0, 1, 0, in_block_comment)
      ELSE Step(0, 0, 1, in_block_comment)

\* The loop body with the `continue` after blank_lines += 1 left out: a blank
\* line falls through to the tests below it.
ClassifyLine_NoContinue(config, line, in_block_comment) ==
  IF is_blank_line(line)
  THEN [ClassifyNonBlank(config, Strip(line), in_block_comment) EXCEPT !.blank = 1]
  ELSE ClassifyNonBlank(config, Strip(line), in_block_comment)

\* One iteration of the per-line loop.
ClassifyLine(config, line, in_block_comment) ==
  IF is_blank_line(line)
  THEN Step(1, 0, 0, in_block_comment)
  ELSE ClassifyNonBlank(config, Strip(line), in_block_comment)

\* The per-line loop of count_lines_in_file over lines[i..], from the counters
\* and flag in acc.
RECURSIVE CountFrom(_, _, _, _)
CountFrom(config, lines, i, acc) ==
  IF i > Len(lines) THEN acc
  ELSE LET d == ClassifyLine(config, lines[i], acc.in_block)
       IN  CountFrom(config, lines, i + 1,
                     Step(acc.blank + d.blank, acc.comment + d.comment,
                          acc.code + d.code, d.in_block))

\* --------------------------------------------------------------- file system
\* A byte that is not valid UTF-8.
BadByte == "FF"

\* open(..., encoding='utf-8', errors='ignore'): undecodable bytes are dropped.
DecodeLine(raw) == SelectSeq(raw, LAMBDA b : b # BadByte)

Decode(content) == [i \in DOMAIN content |-> DecodeLine(content[i])]

PyScenario ==
  << <<"x"," ","="," ","1","\n">>,
     <<"\n">>,
     <<"#"," ","c","o","m","m","e","n","t","\n">>,
     <<"y"," ","="," ","2"," "," ","\n">> >>

JavaScenario ==
  << <<"/","*"," ","s","t","a","r","t","\n">>,
     <<"s","t","i","l","l"," ","c","o","m","m","e","n","t","\n">>,
     <<"e","n","d"," ","*","/","\n">>,
     <<"i","n","t"," ","x",";","\n">> >>

InlineScenario ==
  << <<"/","*"," ","i","n","l","i","n","e"," ","*","/","\n">>,
     <<"c","o","d","e","(",")",";","\n">> >>

HtmlText ==
  << <<"<","!","-","-"," ","a"," ","-","-",">","\n">>,
     <<"<","p",">","\n">> >>

\* A block comment left open at the end of the file.
OpenBlock ==
  << <<"/","*"," ","s","t","a","r","t","\n">>,
     <<"s","t","i","l","l","\n">> >>

\* A comment line wrapped in undecodable bytes, then a code line.
BadBytes ==
  << <<BadByte,"#"," ","c",BadByte,"\n">>,
     <<"x",BadByte,"\n">> >>

OneLine == << <<"i","n","t"," ","x",";","\n">> >>

\* The directories of the scanned tree: 1 is the root given on the command
\* line, parent 0 is none.
RootDir == 1

DirTable ==
  <<[name |-> ".",            parent |-> 0],
    [name |-> "src",          parent |-> 1],
    [name |-> ".git",         parent |-> 1],
    [name |-> "hooks",        parent |-> 3],
    [name |-> "node_modules", parent |-> 2]>>

DirIds == DOMAIN DirTable

File(d, n, r, c) == [dir |-> d, name |-> n, readable |-> r, content |-> c]

\* The files the tree may hold; readable is whether open() and readlines()
\* succeed.
FileTable ==
  <<File(1, <<"a",".","p","y">>,         TRUE,  PyScenario),
    File(1, <<"B",".","P","Y">>,         TRUE,  BadBytes),
    File(1, <<"c",".","p","y">>,         FALSE, <<>>),
    File(2, <<"u",".","j","a","v","a">>, TRUE,  OpenBlock),
    File(2, <<"V",".","j","a","v","a">>, TRUE,  OneLine),
    File(1, <<"n",".","t","x","t">>,     TRUE,  OneLine),
    File(1, <<"d",".","b","i","n">>,     FALSE, <<>>),
    File(4, <<"h",".","p","y">>,         TRUE,  OneLine),
    File(5, <<"m",".","j","a","v","a">>, TRUE,  InlineScenario),
    File(1, <<"i",".","h","t","m","l">>, TRUE,  HtmlText)>>

FileIds == DOMAIN FileTable

\* The command lines: path, --exclude and --include as argparse delivers them.
ValidPath == "."
MissingPath == "missing"
Paths == {ValidPath, MissingPath}

ExcludeArgs == {None, <<"src">>, <<"hooks">>}

IncludeArgs ==
  {None,
   << <<"p","y">> >>,
   << <<".","P","Y">>, <<"J","a","v","a">> >>,
   << <<".","t","x","t">> >>}

\* os.walk yields nothing for a top that cannot be listed.
IsDir(p) == p = ValidPath

\* --------------------------------------------------------------------- state
VARIABLES
  \* the command line and the tree it is run on
  args,              \* [path, exclude, include]
  fs,                \* the files present, a subset of FileIds
  \* CodeLineCounter
  stats,             \* language -> accumulator, for the languages met so far
  total_stats,
  \* scan_directory
  pc,                \* "idle", "walk" (inside the os.walk loop), "done"
  scans,             \* scan_directory calls begun on this counter
  root,              \* the directory os.walk yielded last, 0 before the first
  walked,            \* the directories os.walk has yielded in this call
  files,             \* the entries of the yielded `files` list still to loop over
  file,              \* the loop variable `file`, 0 before the first
  output,            \* the paths named by the warnings printed, in order
  opened,            \* the files open() was called on
  merged,            \* the bag of results added to the accumulators, each with its file
  \* count_lines_in_file, the per-line loop
  lpc,               \* "idle", "loop", "returned"
  language,
  total_lines,
  blank_lines,
  comment_lines,
  code_lines,
  in_block_comment,
  lines_read,        \* lines the for loop has consumed
  line,              \* the loop variable `line`
  result

scanVars ==
  <<args, fs, stats, total_stats, pc, scans, root, walked, files, file,
    output, opened, merged>>

loopVars ==
  <<lpc, language, total_lines, blank_lines, comment_lines, code_lines,
    lines_read, line, result>>

vars == <<scanVars, loopVars, in_block_comment>>

\* ---------------------------------------------------------- CodeLineCounter
\* The flag kept from the file counted before, instead of being set on entry.
InBlockLeaked == in_block_comment

\* in_block_comment = False on entry to the loop.
InBlockAtEntry == FALSE

ZeroStats ==
  [files |-> 0, total_lines |-> 0, code_lines |-> 0, comment_lines |-> 0,
   blank_lines |-> 0]

\* stats is a defaultdict: a language not met yet reads as zeros.
StatsOf(st, lang) == IF lang \in DOMAIN st THEN st[lang] ELSE ZeroStats

FileResult(lang, total, acc) ==
  [language |-> lang, total_lines |-> total, code_lines |-> acc.code,
   comment_lines |-> acc.comment, blank_lines |-> acc.blank]

\* count_lines_in_file from total_lines = len(lines) on, for a file that
\* was read.
CountRead(f, lines, entry_flag) ==
  LET extension == Suffix(FileTable[f].name)
      lang == get_language_by_extension(extension)
  IN  IF lang = NoLanguage
      THEN [warn |-> FALSE, result |-> NoResult, in_block |-> entry_flag]
      ELSE LET acc == CountFrom(language_configs[lang], lines, 1,
                                Step(0, 0, 0, entry_flag))
           IN  [warn |-> FALSE,
                result |-> FileResult(lang, Len(lines), acc),
                in_block |-> acc.in_block]

\* count_lines_in_file with the exception swallowed and the file taken as empty.
count_lines_in_file_EmptyOnError(f, entry_flag) ==
  IF ~FileTable[f].readable
  THEN CountRead(f, <<>>, entry_flag)
  ELSE CountRead(f, Decode(FileTable[f].content), entry_flag)

\* What count_lines_in_file does with file f when the flag is entry_flag on
\* entry to the loop: whether it prints the warning, what it returns, and the
\* flag its loop ends with.
count_lines_in_file(f, entry_flag) ==
  IF ~FileTable[f].readable
  THEN [warn |-> TRUE, result |-> NoResult, in_block |-> entry_flag]
  ELSE CountRead(f, Decode(FileTable[f].content), entry_flag)

\* One accumulator after a result is added to it.
AddResult(acc, r) ==
  [files |-> acc.files + 1,
   total_lines |-> acc.total_lines + r.total_lines,
   code_lines |-> acc.code_lines + r.code_lines,
   comment_lines |-> acc.comment_lines + r.comment_lines,
   blank_lines |-> acc.blank_lines + r.blank_lines]

\* The language's accumulator assigned from the result instead of added to.
MergeStats_Overwrite(st, r) ==
  [l \in DOMAIN st \cup {r.language} |->
     IF l = r.language THEN AddResult(ZeroStats, r) ELSE st[l]]

\* self.stats after the result is merged into its language's accumulator.
MergeStats(st, r) ==
  [l \in DOMAIN st \cup {r.language} |->
     IF l = r.language THEN AddResult(StatsOf(st, l), r) ELSE st[l]]

\* The merge into total_stats with its files += 1 left out.
MergeTotal_NoFiles(tot, r) == [AddResult(tot, r) EXCEPT !.files = tot.files]

\* self.total_stats after the result is merged.
MergeTotal(tot, r) == AddResult(tot, r)

\* ------------------------------------------------------------ scan_directory
DefaultExclude == <<".git", "__pycache__", "node_modules", ".vscode", ".idea">>

\* exclude_dirs after the None check.
ExcludeDirs(exclude) == IF exclude = None THEN DefaultExclude ELSE exclude

\* main: each --include value lowercased, with a dot put in front if it has none.
NormalizeInclude(include) ==
  IF include = None THEN None
  ELSE [i \in DOMAIN include |->
          IF StartsWith(include[i], <<".">>)
          THEN Lower(include[i])
          ELSE <<".">> \o Lower(include[i])]

\* The include test with extension.lower() written as extension.
IncludeSkips_NoLower(include_extensions, extension) ==
  /\ include_extensions # None
  /\ ~InList(extension, include_extensions)

\* The include test of the files loop: TRUE when the file is passed over.
IncludeSkips(include_extensions, extension) ==
  /\ include_extensions # None
  /\ ~InList(Lower(extension), include_extensions)

\* dirs = [...] in place of dirs[:] = [...]: os.walk sees the list unpruned.
KeptDirs_NoPrune(d, exclude_dirs) == {c \in DirIds : DirTable[c].parent = d}

\* dirs[:] after the pruning, for the directory d just yielded.
KeptDirs(d, exclude_dirs) ==
  {c \in DirIds : DirTable[c].parent = d /\ ~InList(DirTable[c].name, exclude_dirs)}

\* The directories os.walk may yield next (top-down, depth first, siblings in
\* the order of the listing, which is any order): the kept subdirectories not
\* yet walked of the deepest directory on the current path that has any.
RECURSIVE NextDirs(_, _, _)
NextDirs(d, done, exclude_dirs) ==
  IF d = 0
  THEN IF IsDir(args.path) /\ RootDir \notin done THEN {RootDir} ELSE {}
  ELSE LET left == KeptDirs(d, exclude_dirs) \ done
       IN  IF left # {} THEN left
           ELSE IF d = RootDir THEN {}
           ELSE NextDirs(DirTable[d].parent, done, exclude_dirs)

FilesIn(d) == {f \in fs : FileTable[f].dir = d}

\* main builds the arguments and calls scan_directory; a later call on the same
\* counter starts from the accumulators as they are.
ScanBegin ==
  /\ pc \in {"idle", "done"}
  /\ scans < MaxScans
  /\ pc' = "walk"
  /\ scans' = scans + 1
  /\ root' = 0
  /\ walked' = {}
  /\ files' = {}
  /\ file' = 0
  /\ UNCHANGED <<args, fs, stats, total_stats, output, opened, merged,
                 in_block_comment, loopVars>>

\* os.walk yields the next directory and the body prunes dirs.
WalkYield ==
  /\ pc = "walk"
  /\ files = {}
  /\ \E d \in NextDirs(root, walked, ExcludeDirs(args.exclude)) :
       /\ root' = d
       /\ walked' = walked \cup {d}
       /\ files' = FilesIn(d)
  /\ UNCHANGED <<args, fs, stats, total_stats, pc, scans, file, output,
                 opened, merged, in_block_comment, loopVars>>

\* One iteration of `for file in files`.
FileStep ==
  /\ pc = "walk"
  /\ \E f \in files :
       LET extension == Suffix(FileTable[f].name)
           r == count_lines_in_file(f, InBlockAtEntry)
       IN  /\ file' = f
           /\ files' = files \ {f}
           /\ IF IncludeSkips(NormalizeInclude(args.include), extension)
              THEN UNCHANGED <<stats, total_stats, output, opened, merged,
                               in_block_comment>>
              ELSE /\ opened' = opened \cup {f}
                   /\ output' = IF r.warn THEN Append(output, f) ELSE output
                   /\ in_block_comment' = r.in_block
                   /\ IF r.result # NoResult
                      THEN /\ stats' = MergeStats(stats, r.result)
                           /\ total_stats' = MergeTotal(total_stats, r.result)
                           /\ merged' = merged (+) SetToBag({[file |-> f, result |-> r.result]})
                      ELSE UNCHANGED <<stats, total_stats, merged>>
  /\ UNCHANGED <<args, fs, pc, scans, root, walked, loopVars>>

\* os.walk is exhausted and scan_directory returns.
ScanReturn ==
  /\ pc = "walk"
  /\ files = {}
  /\ NextDirs(root, walked, ExcludeDirs(args.exclude)) = {}
  /\ pc' = "done"
  /\ UNCHANGED <<args, fs, stats, total_stats, scans, root, walked, files,
                 file, output, opened, merged, in_block_comment, loopVars>>

LoopIdle ==
  /\ lpc = "idle"
  /\ language = NoLanguage
  /\ total_lines = 0
  /\ blank_lines = 0
  /\ comment_lines = 0
  /\ code_lines = 0
  /\ lines_read = 0
  /\ line = <<>>
  /\ result = NoResult

\* A fresh CodeLineCounter, about to be run on some tree with some command line.
Init ==
  /\ args \in [path : Paths, exclude : ExcludeArgs, include : IncludeArgs]
  /\ fs \in {s \in SUBSET FileIds : Cardinality(s) <= MaxFiles}
  /\ stats = <<>>
  /\ total_stats = ZeroStats
  /\ pc = "idle"
  /\ scans = 0
  /\ root = 0
  /\ walked = {}
  /\ files = {}
  /\ file = 0
  /\ output = <<>>
  /\ opened = {}
  /\ merged = EmptyBag
  /\ in_block_comment = FALSE
  /\ LoopIdle

Next == ScanBegin \/ WalkYield \/ FileStep \/ ScanReturn

Spec == Init /\ [][Next]_vars

\* ------------------------------------------ the per-line loop, step by step
\* The lines given to the loop: up to MaxLinePieces pieces, each a blank, a
\* filler character or one of the language's comment markers, ended by the
\* newline readlines keeps.
LinePieces(config) ==
  {<<" ">>, <<"x">>}
    \cup ({config.line_comment, config.block_comment_start,
           config.block_comment_end} \ {None})

RECURSIVE Join(_)
Join(pieces) == IF pieces = <<>> THEN <<>> ELSE Head(pieces) \o Join(Tail(pieces))

LineSet(config) ==
  {Join(p) \o <<"\n">> :
     p \in UNION {[1..k -> LinePieces(config)] : k \in 0..MaxLinePieces}}

\* One language for each distinct comment grammar of language_configs: cpp, go
\* and javascript have java's markers, and the loop reads nothing else of a
\* configuration.
LoopLanguages == {"python", "java", "html", "css"}

\* The lines a file of each language may hold.
LinesOf == [lang \in Languages |-> LineSet(language_configs[lang])]

\* count_lines_in_file has read a file of some language and is about to loop.
InitLoop ==
  /\ args = [path |-> ValidPath, exclude |-> None, include |-> None]
  /\ fs = {}
  /\ stats = <<>>
  /\ total_stats = ZeroStats
  /\ pc = "idle"
  /\ scans = 0
  /\ root = 0
  /\ walked = {}
  /\ files = {}
  /\ file = 0
  /\ output = <<>>
  /\ opened = {}
  /\ merged = EmptyBag
  /\ lpc = "loop"
  /\ language \in LoopLanguages
  /\ total_lines \in 0..MaxLines
  /\ blank_lines = 0
  /\ comment_lines = 0
  /\ code_lines = 0
  /\ in_block_comment = InBlockAtEntry
  /\ lines_read = 0
  /\ line = <<>>
  /\ result = NoResult

\* One iteration of `for line in lines`.
LoopStep ==
  /\ lpc = "loop"
  /\ lines_read < total_lines
  /\ \E l \in LinesOf[language] :
       LET d == ClassifyLine(language_configs[language], l, in_block_comment)
       IN  /\ line' = l
           /\ blank_lines' = blank_lines + d.blank
           /\ comment_lines' = comment_lines + d.comment
           /\ code_lines' = code_lines + d.code
           /\ in_block_comment' = d.in_block
  /\ lines_read' = lines_read + 1
  /\ UNCHANGED <<scanVars, lpc, language, total_lines, result>>

\* The loop is over and the result is returned.
LoopReturn ==
  /\ lpc = "loop"
  /\ lines_read = total_lines
  /\ lpc' = "returned"
  /\ result' =
       FileResult(language, total_lines,
                  Step(blank_lines, comment_lines, code_lines, in_block_comment))
  /\ UNCHANGED <<scanVars, language, total_lines, blank_lines, comment_lines,
                 code_lines, in_block_comment, lines_read, line>>

NextLoop == LoopStep \/ LoopReturn

SpecLoop == InitLoop /\ [][NextLoop]_vars

\* ================================================================== claims
\* ----------------------------------------------------------------------- C1
\* C1: for every result count_lines_in_file returns, total_lines is
\* code_lines + comment_lines + blank_lines, and at every point of the per-line
\* loop the three counters add up to the number of lines processed so far: each
\* line increments exactly one of them.
C1_TotalIsSum ==
  /\ lpc = "loop" =>
       /\ lines_read = code_lines + comment_lines + blank_lines
       /\ lines_read <= total_lines
  /\ lpc = "returned" =>
       /\ result.total_lines =
            result.code_lines + result.comment_lines + result.blank_lines
       /\ result.total_lines = total_lines

\* A three-line file returned with one line in each category.
C1_Witness ==
  /\ lpc = "returned"
  /\ result.total_lines = 3
  /\ result.code_lines = 1
  /\ result.comment_lines = 1
  /\ result.blank_lines = 1

\* ----------------------------------------------------------------------- C4
\* The category and flag the precedence rules 1, 2a-2d, 3, 4 of the
\* specification give a line, stated from their text.
C4_Rule(config, l, flag) ==
  LET s == Strip(l)
      pair == config.block_comment_start # None /\ config.block_comment_end # None
      hasStart == pair /\ Contains(config.block_comment_start, s)
      hasEnd == pair /\ Contains(config.block_comment_end, s)
      lineMark == config.line_comment # None /\ StartsWith(s, config.line_comment)
  IN  CASE s = <<>>                              -> <<"blank", flag>>
        [] s # <<>> /\ hasStart /\ hasEnd         -> <<"comment", flag>>
        [] s # <<>> /\ hasStart /\ ~hasEnd /\ ~flag -> <<"comment", TRUE>>
        [] s # <<>> /\ hasEnd /\ ~hasStart /\ flag  -> <<"comment", FALSE>>
        [] s # <<>> /\ flag /\ ~(hasStart /\ hasEnd) /\ ~(hasEnd /\ ~hasStart)
                                                  -> <<"comment", flag>>
        [] s # <<>> /\ ~flag /\ ~hasStart /\ lineMark -> <<"comment", flag>>
        [] OTHER                                  -> <<"code", flag>>

C4_Count(kind, want) == IF kind = want THEN 1 ELSE 0

\* The three scenarios of the specification, counted by the whole loop.
C4_Counts(lang, lines) ==
  LET acc == CountFrom(language_configs[lang], lines, 1, Step(0, 0, 0, FALSE))
  IN  <<Len(lines), acc.code, acc.comment, acc.blank>>

C4_Scenarios ==
  /\ C4_Counts("python", PyScenario) = <<4, 2, 1, 1>>
  /\ C4_Counts("java", JavaScenario) = <<4, 1, 3, 0>>
  /\ C4_Counts("java", InlineScenario) = <<2, 1, 1, 0>>

\* C4: the flag starts false, and every iteration of the loop counts its line
\* in the category the precedence rules give and leaves the flag they give; no
\* non-blank line read while the flag is true is counted as code, and the flag
\* is cleared only by a line that holds the end marker and not the start marker.
C4_Precedence ==
  /\ C4_Scenarios
  /\ (lines_read = 0 => ~in_block_comment)
  /\ [][lines_read' = lines_read + 1 =>
          LET config == language_configs[language]
              e == C4_Rule(config, line', in_block_comment)
          IN  /\ blank_lines' = blank_lines + C4_Count(e[1], "blank")
              /\ comment_lines' = comment_lines + C4_Count(e[1], "comment")
              /\ code_lines' = code_lines + C4_Count(e[1], "code")
              /\ in_block_comment' = e[2]
              /\ (in_block_comment /\ Strip(line') # <<>>
                    => code_lines' = code_lines)
              /\ (in_block_comment /\ ~in_block_comment'
                    => /\ Contains(config.block_comment_end, line')
                       /\ ~Contains(config.block_comment_start, line'))]_vars

\* A line without any marker read inside an open block comment and counted as
\* a comment, after the block was opened by the line before it.
C4_Witness ==
  /\ lpc = "loop"
  /\ language = "java"
  /\ lines_read = 2
  /\ line = <<"x", " ", "\n">>
  /\ in_block_comment
  /\ comment_lines = 2

\* ------------------------------------------------- what a scan should count
\* The directories from d up to, and without, the root.
RECURSIVE DirsAbove(_)
DirsAbove(d) ==
  IF d = 0 \/ d = RootDir THEN {} ELSE {d} \cup DirsAbove(DirTable[d].parent)

\* The exclusion set in force: the default set when none is passed.
ExclusionSet ==
  IF args.exclude = None
  THEN {".git", "__pycache__", "node_modules", ".vscode", ".idea"}
  ELSE {args.exclude[i] : i \in DOMAIN args.exclude}

\* The directory lies at some depth beneath (or is) a subdirectory whose name
\* is excluded.
DirExcluded(d) == \E a \in DirsAbove(d) : DirTable[a].name \in ExclusionSet

UnderExcluded(f) == DirExcluded(FileTable[f].dir)

\* The dotted, lowercased form of an --include value.
DottedLower(ext) ==
  IF ext # <<>> /\ ext[1] = "." THEN Lower(ext) ELSE <<".">> \o Lower(ext)

\* The file passes the include filter, or there is none.
Included(f) ==
  \/ args.include = None
  \/ \E i \in DOMAIN args.include :
       DottedLower(args.include[i]) = Lower(Suffix(FileTable[f].name))

Recognized(f) == get_language_by_extension(Suffix(FileTable[f].name)) # NoLanguage

\* The file holds bytes that are not valid UTF-8.
Undecodable(f) ==
  /\ FileTable[f].readable
  /\ \E i \in DOMAIN FileTable[f].content : InList(BadByte, FileTable[f].content[i])

\* The files one scan of the tree should merge.
Counted ==
  {f \in fs : /\ IsDir(args.path)
              /\ ~UnderExcluded(f)
              /\ Included(f)
              /\ FileTable[f].readable
              /\ Recognized(f)}

\* The result of classifying each file on its own, the flag starting false.
FreshResults == [f \in FileIds |-> count_lines_in_file(f, FALSE).result]

FreshResult(f) == FreshResults[f]

RECURSIVE SumOver(_, _)
SumOver(S, field) ==
  IF S = {} THEN 0
  ELSE LET f == CHOOSE x \in S : TRUE
       IN  FreshResult(f)[field] + SumOver(S \ {f}, field)

\* k scans' worth of the files in S, as an accumulator.
Tally(S, k) ==
  [files |-> k * Cardinality(S),
   total_lines |-> k * SumOver(S, "total_lines"),
   code_lines |-> k * SumOver(S, "code_lines"),
   comment_lines |-> k * SumOver(S, "comment_lines"),
   blank_lines |-> k * SumOver(S, "blank_lines")]

ExpectedTotal(k) == Tally(Counted, k)

ExpectedStats(k) ==
  [l \in {FreshResult(f).language : f \in Counted} |->
     Tally({f \in Counted : FreshResult(f).language = l}, k)]

\* The files whose results were merged.
MergedFiles == {m.file : m \in BagToSet(merged)}

\* The sum of a field over the merged results of the languages in L, each
\* result counted as often as it was merged.
RECURSIVE BagSum(_, _, _)
BagSum(M, L, field) ==
  IF M = {} THEN 0
  ELSE LET m == CHOOSE x \in M : TRUE
       IN  (IF m.result.language \in L
            THEN CopiesIn(m, merged) * (IF field = "files" THEN 1 ELSE m.result[field])
            ELSE 0)
           + BagSum(M \ {m}, L, field)

MergedTally(L) ==
  [files |-> BagSum(BagToSet(merged), L, "files"),
   total_lines |-> BagSum(BagToSet(merged), L, "total_lines"),
   code_lines |-> BagSum(BagToSet(merged), L, "code_lines"),
   comment_lines |-> BagSum(BagToSet(merged), L, "comment_lines"),
   blank_lines |-> BagSum(BagToSet(merged), L, "blank_lines")]

RECURSIVE StatsSum(_, _)
StatsSum(L, field) ==
  IF L = {} THEN 0
  ELSE LET l == CHOOSE x \in L : TRUE
       IN  stats[l][field] + StatsSum(L \ {l}, field)

\* ----------------------------------------------------------------------- C2
\* C2: at every point of a scan, each of the five fields of every language's
\* accumulator is the sum of that field over the results merged for that
\* language (files counting one per result), each field of total_stats is the
\* sum of that field over the languages' accumulators, and so a result is in
\* both accumulators in all five fields or in neither.
C2_AccumulatorsAreSums ==
  /\ DOMAIN stats \subseteq Languages
  /\ \A l \in Languages : StatsOf(stats, l) = MergedTally({l})
  /\ \A field \in DOMAIN ZeroStats :
       total_stats[field] = StatsSum(DOMAIN stats, field)
  /\ total_stats = MergedTally(Languages)

\* Two files of two languages merged, one of them with several lines.
C2_Witness ==
  /\ Cardinality(DOMAIN stats) = 2
  /\ total_stats.files = 2
  /\ total_stats.total_lines > 2
  /\ BagCardinality(merged) = 2

\* ----------------------------------------------------------------------- C3
\* C3: when the first scan of a fresh counter returns, stats and total_stats
\* are the sums over the files the tree and the arguments select, each file
\* classified on its own with the flag starting false, whatever the order in
\* which os.walk listed the directories and files.
C3_OrderIndependent ==
  pc = "done" /\ scans = 1 =>
    /\ stats = ExpectedStats(1)
    /\ total_stats = ExpectedTotal(1)

\* u.java, which leaves its block comment open, was counted before V.java, and
\* the line of V.java is code.
C3_Witness ==
  /\ pc = "done"
  /\ scans = 1
  /\ fs = {4, 5}
  /\ file = 5
  /\ opened = {4, 5}
  /\ stats["java"].code_lines = 1
  /\ stats["java"].comment_lines = 2

\* ----------------------------------------------------------------------- C5
\* The files loop takes file f.
TakesFile(f) ==
  /\ pc = "walk"
  /\ f \in files
  /\ file' = f
  /\ files' = files \ {f}

C6_PrunedNeverVisited ==
  /\ \A d \in walked : ~DirExcluded(d)
  /\ \A f \in fs :
       UnderExcluded(f) =>
         f \notin files /\ file # f /\ f \notin opened /\ f \notin MergedFiles
  /\ args.exclude = None =>
       \A f \in fs :
         (\E a \in DirsAbove(FileTable[f].dir) : DirTable[a].name = ".git") =>
           f \notin opened /\ f \notin MergedFiles

\* A scan with the default exclusions of a tree holding a.py and .git/hooks/h.py
\* has returned: src was walked, only a.py was opened and counted.
C6_Witness ==
  /\ pc = "done"
  /\ args.exclude = None
  /\ args.include = None
  /\ fs = {1, 8}
  /\ walked = {1, 2}
  /\ opened = {1}
  /\ total_stats.files = 1

\* ----------------------------------------------------------------------- C7
\* C7: with --include given, a file whose lowercased suffix is not the dotted
\* lowercased form of one of the values is neither opened nor merged, and when
\* the first scan returns the file count is the number of readable files of a
\* known language outside the pruned directories whose suffix is one.
C7_IncludeFilter ==
  args.include # None =>
    /\ \A f \in fs : ~Included(f) => f \notin opened /\ f \notin MergedFiles
    /\ pc = "done" /\ scans = 1 => total_stats.files = Cardinality(Counted)

\* --include py on a tree holding B.PY and src/u.java: src was walked, only
\* B.PY was opened, and the file count is one.
C7_Witness ==
  /\ pc = "done"
  /\ scans = 1
  /\ args.include = << <<"p","y">> >>
  /\ fs = {2, 4}
  /\ 2 \in walked
  /\ opened = {2}
  /\ total_stats.files = 1

\* ----------------------------------------------------------------------- C8
\* C8 as stated: a file whose extension resolves to no grammar is skipped
\* silently: no warning ever names it, and it is merged into no accumulator.
C8_SilentSkip ==
  \A f \in fs : ~Recognized(f) => ~InList(f, output) /\ f \notin MergedFiles

\* ----------------------------------------------------------------------- C9
\* C9 as stated: whenever a scan returns, the accumulators hold the files
\* merged during that call only.
C9_FreshEachScan ==
  pc = "done" => stats = ExpectedStats(1) /\ total_stats = ExpectedTotal(1)

\* C9 as amended: the accumulators are empty when the counter is constructed,
\* not at the start of each scan: a scan adds to what the counter holds, so a
\* scan of an unchanged tree with unchanged arguments starts from the sums of
\* the scans before it and returns with the sums of all of them; only the first
\* scan of a fresh counter reports the tree alone.
C9_AccumulatesAcrossScans ==
  /\ scans = 0 => DOMAIN stats = {} /\ total_stats = ZeroStats
  /\ pc = "walk" /\ walked = {} => total_stats = ExpectedTotal(scans - 1)
  /\ pc = "done" =>
       stats = ExpectedStats(scans) /\ total_stats = ExpectedTotal(scans)

\* The second scan of a tree with one countable file has returned with a file
\* count of two.
C9_Witness ==
  /\ pc = "done"
  /\ scans = 2
  /\ Cardinality(Counted) = 1
  /\ total_stats.files = 2

\* ---------------------------------------------------------------------- C10
\* C10 as stated: a scan whose root does not exist or cannot be read does not
\* return normally; it ends in a fatal error.
C10_FailFast == pc = "done" => IsDir(args.path)

====
